---- MODULE Spec2Model ----
(***************************************************************************)
(* Model of exception/custom_exception.py and exception/__init__.py: the   *)
(* DRF exception adapter custom_exception_handler and the classifier       *)
(* ExceptionHandler (handle, _deal_*, _get_error_type, unpack_errors).     *)
(*                                                                         *)
(* Python values are modelled as follows.                                  *)
(*  - A node of an exception's detail is a record [kind, code, msg, items]:*)
(*    kind "leaf" is an ErrorDetail (a str with a .code), kind "dict" a    *)
(*    dict whose items are <<[field, error], ...>> in insertion order,     *)
(*    kind "list" a list whose items are nodes, kind "none" stands for an  *)
(*    exception that has no detail attribute at all.                       *)
(*  - Strings are strings; f-strings and str.join are \o concatenations.   *)
(*    The Chinese literals of the source are written in English because    *)
(*    the module is ASCII.                                                 *)
(*  - A Python list that is passed by reference (the fields accumulator of *)
(*    unpack_errors) is an object of a heap: a sequence of list contents   *)
(*    indexed by object identity.                                          *)
(*  - A Python exception escaping a function is the outcome raised = TRUE. *)
(***************************************************************************)
EXTENDS Integers, Sequences, FiniteSets, TLC

\* Bounds of the inputs.
MaxNodes == 4    \* fields (at any depth) of a validation error's detail
MaxErrs == 2     \* leaf errors in a field's longest error list
MaxCalls == 2    \* direct calls of ExceptionHandler.handle per request

VARIABLES
    exc,            \* the exception instance raised by the view
    request_data,   \* context["request"].data
    ENV_FLAG,       \* settings.ENV_FLAG
    pc,             \* "raised": exception pending; then the adapter's outcome
    response,       \* what custom_exception_handler returned
    logs,           \* logger.warning calls made by the adapter
    reports,        \* sentry_sdk.capture_exception calls made by the adapter
    rollbacks,      \* set_rollback calls made by the adapter itself (line 45)
    calls,          \* direct calls of ExceptionHandler.handle so far
    out,            \* result of the first direct handle(exc) call
    arg,            \* the exception of the latest handle call, by any caller
    ret,            \* what the latest handle call returned, or that it raised
    errors,         \* contents of the latest errors list object (line 86)
    fields          \* contents of the latest fields list object (line 87)

vars == <<exc, request_data, ENV_FLAG, pc, response, logs, reports, rollbacks,
          calls, out, arg, ret, errors, fields>>

-----------------------------------------------------------------------------
\* Detail nodes.

Leaf(code, msg) == [kind |-> "leaf", code |-> code, msg |-> msg, items |-> <<>>]
Dict(items) == [kind |-> "dict", code |-> "", msg |-> "", items |-> items]
List(items) == [kind |-> "list", code |-> "", msg |-> "", items |-> items]
NoDetail == [kind |-> "none", code |-> "", msg |-> "", items |-> <<>>]

\* Field names, given to the fields of a detail in pre-order.
FieldPool == <<"delivery", "address", "city_code", "phone", "name", "zip">>
FieldName(i) == FieldPool[((i - 1) % Len(FieldPool)) + 1]

\* Leaf errors of serializer fields: ErrorDetail(message, code).
ErrorPool == <<Leaf("required", "This field is required."),
               Leaf("invalid", "Enter a valid value."),
               Leaf("blank", "This field may not be blank."),
               Leaf("null", "This field may not be null.")>>
ErrorAt(j) == ErrorPool[((j - 1) % Len(ErrorPool)) + 1]
ErrorList(k) == List([j \in 1..k |-> ErrorAt(j)])

\* The values of a field without sub-fields: a list of one leaf error or of
\* MaxErrs leaf errors.
LeafValues == {ErrorList(k) : k \in {1, MaxErrs}}

\* All dict item sequences with exactly n fields in total, named in pre-order
\* from index start.
RECURSIVE Items(_, _)
Items(n, start) ==
    IF n = 0 THEN {<<>>}
    ELSE UNION {
        LET firsts == IF k = 0 THEN LeafValues
                      ELSE {Dict(sub) : sub \in Items(k, start + 1)}
        IN {<<[field |-> FieldName(start), error |-> v]>> \o rest :
                v \in firsts, rest \in Items(n - 1 - k, start + k + 1)}
        : k \in 0..(n - 1)}

\* Details a serializer produces: dicts of fields, nested to any depth.
DictDetails == UNION {{Dict(it) : it \in Items(n, 1)} : n \in 1..MaxNodes}

\* Other shapes DRF produces: ValidationError("msg") has a list detail; a
\* many=True nested serializer gives a field list that contains dicts; a dict
\* detail built from plain strings maps a field to a bare ErrorDetail.
OddDetails ==
    { ErrorList(1),
      Dict(<<[field |-> "items", error |-> List(<<Dict(<<[field |-> "name", error |-> ErrorList(1)]>>), Dict(<<>>)>>)]>>),
      Dict(<<[field |-> "phone", error |-> ErrorList(1)],
             [field |-> "items", error |-> List(<<ErrorAt(2), Dict(<<>>)>>)],
             [field |-> "name", error |-> ErrorList(1)]>>),
      Dict(<<[field |-> "delivery", error |-> Dict(<<[field |-> "address", error |-> ErrorList(1)],
                                                     [field |-> "items", error |-> List(<<Dict(<<>>)>>)]>>)]>>),
      Dict(<<[field |-> "phone", error |-> ErrorAt(2)],
             [field |-> "name", error |-> ErrorList(1)]>>) }

-----------------------------------------------------------------------------
\* The exception classes and isinstance.

Parent ==
    [ Exception |-> "Exception",
      APIException |-> "Exception",
      AuthenticationFailed |-> "APIException",
      NotAuthenticated |-> "APIException",
      PermissionDenied |-> "APIException",
      ValidationError |-> "APIException",
      NotFound |-> "APIException",
      CustomException |-> "APIException",
      AlreadyExists |-> "CustomException",
      InvalidEffectiveDate |-> "CustomException",
      Http404 |-> "Exception",
      DjangoPermissionDenied |-> "Exception",
      DatabaseError |-> "Exception" ]

Classes == DOMAIN Parent

RECURSIVE Mro(_)
Mro(c) == IF Parent[c] = c THEN {c} ELSE {c} \cup Mro(Parent[c])

isinstance(e, c) == c \in Mro(e.cls)

\* Class attributes status_code, default_detail and default_code, resolved
\* along the class's bases.
ClassAttrs ==
    [ APIException |-> [status_code |-> 500, default_code |-> "error",
                        default_detail |-> "A server error occurred."],
      AuthenticationFailed |-> [status_code |-> 401, default_code |-> "authentication_failed",
                        default_detail |-> "Incorrect authentication credentials."],
      NotAuthenticated |-> [status_code |-> 401, default_code |-> "not_authenticated",
                        default_detail |-> "Authentication credentials were not provided."],
      PermissionDenied |-> [status_code |-> 403, default_code |-> "permission_denied",
                        default_detail |-> "You do not have permission to perform this action."],
      ValidationError |-> [status_code |-> 400, default_code |-> "invalid",
                        default_detail |-> "Invalid input."],
      NotFound |-> [status_code |-> 404, default_code |-> "not_found",
                        default_detail |-> "Not found."],
      CustomException |-> [status_code |-> 500, default_code |-> "error",
                        default_detail |-> "A server error occurred."],
      AlreadyExists |-> [status_code |-> 400,
                        default_code |-> "courtesy_car.customer.already_exists",
                        default_detail |-> "The customer already exists and the insured periods overlap"],
      InvalidEffectiveDate |-> [status_code |-> 400,
                        default_code |-> "courtesy_car.customer.invalid_effective_date",
                        default_detail |-> "A wrong effective date was used when adding the customer"] ]

ApiClasses == DOMAIN ClassAttrs

\* An exception instance: its class, its args[0] and its detail attribute.
Exc(c, msg, detail) == [cls |-> c, msg |-> msg, detail |-> detail]

Messages == {"", "No Customer matches the given query."}

ValidationErrors == {Exc("ValidationError", "", d) : d \in DictDetails \cup OddDetails}

\* APIException(detail=None) takes default_detail; APIException("text") keeps
\* the class's default_code.
SimpleApiErrors ==
    UNION {{Exc(c, "", Leaf(ClassAttrs[c].default_code, m)) :
                m \in {ClassAttrs[c].default_detail, "custom detail"}} :
           c \in ApiClasses \ {"ValidationError"}}

PlainErrors ==
    {Exc(c, m, NoDetail) : c \in {"Http404", "DjangoPermissionDenied", "DatabaseError"},
                           m \in Messages}

Exceptions == ValidationErrors \cup SimpleApiErrors \cup PlainErrors

RequestBodies == {"{}", "{\"city_code\": \"\"}"}
EnvFlags == {"local", "test", "production"}

-----------------------------------------------------------------------------
\* ExceptionHandler.

DEPTH_MARK == "::"

\* EXCEPTION_MAP, a dict: its items in declaration order.
EXCEPTION_MAP ==
    << <<"AuthenticationFailed", "authentication_error">>,
       <<"NotAuthenticated", "authentication_error">>,
       <<"PermissionDenied", "authentication_error">>,
       <<"CustomException", "api_error">>,
       <<"ValidationError", "validation_error">>,
       <<"Http404", "invalid_request_error">> >>

\* for exc_class, exc_type in EXCEPTION_MAP.items(): first isinstance match.
RECURSIVE FirstMatch(_, _)
FirstMatch(e, i) ==
    IF i > Len(EXCEPTION_MAP) THEN "api_error"
    ELSE IF isinstance(e, EXCEPTION_MAP[i][1]) THEN EXCEPTION_MAP[i][2]
    ELSE FirstMatch(e, i + 1)

\* Variant: the lookup falls through to the default.
_get_error_type_default(e) == "api_error"

_get_error_type(e) == FirstMatch(e, 1)

\* str.join
RECURSIVE join(_, _)
join(sep, seq) ==
    IF Len(seq) = 0 THEN ""
    ELSE IF Len(seq) = 1 THEN seq[1]
    ELSE seq[1] \o sep \o join(sep, Tail(seq))

\* The two f-strings of unpack_errors (lines 139-145).
LeafCode(field_str, field, each) ==
    IF field_str # ""
    THEN "validation." \o field_str \o DEPTH_MARK \o field \o "." \o each.code
    ELSE "validation." \o field \o "." \o each.code

\* Variant: the record's message is taken from the leaf error's code.
LeafRecord_code_as_message(code, each) ==
    [type |-> "validation_error", code |-> code, message |-> each.code]

\* The record appended at lines 146-152; str(each) of an ErrorDetail is its text.
LeafRecord(code, each) ==
    [type |-> "validation_error", code |-> code, message |-> each.msg]

\* for each in error (lines 138-152). each.code of a dict or a list raises
\* AttributeError. st = [errors, heap, raised].
RECURSIVE ForEachError(_, _, _, _, _)
ForEachError(error, j, field, field_str, st) ==
    IF st.raised \/ j > Len(error) THEN st
    ELSE IF error[j].kind # "leaf" THEN [st EXCEPT !.raised = TRUE]
    ELSE ForEachError(error, j + 1, field, field_str,
            [st EXCEPT !.errors =
                Append(@, LeafRecord(LeafCode(field_str, field, error[j]), error[j]))])

\* Variant: line 135 is missing, the local name stays bound to the same object.
ResetFields_missing(st, ref) == [st |-> st, ref |-> ref]

\* fields = [] (line 135): the local name is bound to a new list object; the
\* object it named before is left as it is.
ResetFields(st, ref) ==
    [st |-> [st EXCEPT !.heap = Append(@, <<>>)], ref |-> Len(st.heap) + 1]

\* unpack_errors(exc_detail, errors, fields): ref is the identity of the list
\* object the parameter fields is bound to. exc_detail.items() raises
\* AttributeError unless exc_detail is a dict.
RECURSIVE unpack_errors(_, _, _), ForEachField(_, _, _, _)
unpack_errors(exc_detail, st, ref) ==
    IF exc_detail.kind # "dict" THEN [st EXCEPT !.raised = TRUE]
    ELSE ForEachField(exc_detail.items, 1, st, ref)

ForEachField(items, i, st, ref) ==
    IF st.raised \/ i > Len(items) THEN st
    ELSE LET field == items[i].field
             error == items[i].error
         IN CASE error.kind = "dict" ->
                    LET st1 == [st EXCEPT !.heap[ref] = Append(@, field)]
                        st2 == unpack_errors(error, st1, ref)
                        nxt == ResetFields(st2, ref)
                    IN IF st2.raised THEN st2
                       ELSE ForEachField(items, i + 1, nxt.st, nxt.ref)
              [] error.kind = "list" ->
                    ForEachField(items, i + 1,
                        ForEachError(error.items, 1, field,
                                     join(DEPTH_MARK, st.heap[ref]), st),
                        ref)
              [] OTHER -> ForEachField(items, i + 1, st, ref)

\* Variant: the accumulator is a list kept from the previous call.
FreshFields_shared == fields

\* fields = [] of _deal_validation_error (line 87).
FreshFields == <<>>

\* The results of handle and its branches: raised, the returned list (empty
\* when the call raised), and the contents the errors and fields list objects
\* of the call are left with.
_deal_validation_error(e) ==
    LET st == unpack_errors(e.detail,
                            [errors |-> <<>>, heap |-> <<FreshFields>>, raised |-> FALSE], 1)
    IN [raised |-> st.raised,
        records |-> IF st.raised THEN <<>> ELSE st.errors,
        errors |-> st.errors,
        fields |-> st.heap[1]]

\* exc.get_codes() of an APIException whose detail is one ErrorDetail.
get_codes(e) == e.detail.code

\* exc.get_codes() and exc.detail raise AttributeError on an exception that is
\* not an APIException.
_deal_other_error(e) ==
    IF ~isinstance(e, "APIException")
    THEN [raised |-> TRUE, records |-> <<>>, errors |-> errors, fields |-> fields]
    ELSE [raised |-> FALSE,
          records |-> <<[type |-> _get_error_type(e),
                         code |-> get_codes(e),
                         message |-> e.detail.msg]>>,
          errors |-> errors, fields |-> fields]

\* Variant: the record's message is the exception's own message.
_deal_http404_error_own_message(e) ==
    [raised |-> FALSE,
     records |-> <<[type |-> _get_error_type(e),
                    code |-> "general.parameter_unknown",
                    message |-> e.msg]>>,
     errors |-> errors, fields |-> fields]

_deal_http404_error(e) ==
    [raised |-> FALSE,
     records |-> <<[type |-> _get_error_type(e),
                    code |-> "general.parameter_unknown",
                    message |-> "The requested resource does not exist."]>>,
     errors |-> errors, fields |-> fields]

handle(e) ==
    IF isinstance(e, "Http404") THEN _deal_http404_error(e)
    ELSE IF isinstance(e, "ValidationError") THEN _deal_validation_error(e)
    ELSE _deal_other_error(e)

-----------------------------------------------------------------------------
\* custom_exception_handler.

None == [kind |-> "none", status |-> 0, data |-> [errors |-> <<>>]]

\* rest_framework.views.exception_handler: Http404 and Django's
\* PermissionDenied are turned into NotFound and PermissionDenied, an
\* APIException gives Response(detail, status=exc.status_code), anything else
\* gives None.
exception_handler(e, context) ==
    IF isinstance(e, "Http404")
    THEN [kind |-> "response", status |-> ClassAttrs["NotFound"].status_code,
          data |-> [detail |-> e.detail]]
    ELSE IF isinstance(e, "DjangoPermissionDenied")
    THEN [kind |-> "response", status |-> ClassAttrs["PermissionDenied"].status_code,
          data |-> [detail |-> e.detail]]
    ELSE IF isinstance(e, "APIException")
    THEN [kind |-> "response", status |-> ClassAttrs[e.cls].status_code,
          data |-> [detail |-> e.detail]]
    ELSE None

\* The value of "details": a list of records or a str.
DetailsList(records) == [kind |-> "list", records |-> records, text |-> ""]
DetailsStr(text) == [kind |-> "str", records |-> <<>>, text |-> text]

ErrorBody(details, object) == [errors |-> <<[details |-> details, object |-> object]>>]

\* settings.ENV_FLAG in ("local", "test")
IsDevEnv(flag) == flag \in {"local", "test"}

\* Variant: the details are the exception's own message.
ServerErrorResponse_leaky(e, object) ==
    [kind |-> "response", status |-> 500,
     data |-> ErrorBody(DetailsStr(e.msg), object)]

\* JsonResponse(data=..., status=500) of lines 44-52.
ServerErrorResponse(e, object) ==
    [kind |-> "response", status |-> 500,
     data |-> ErrorBody(DetailsStr("Server error, please contact the administrator."), object)]

\* Lines 30-37: the framework's response with its data replaced.
Reshape(resp, records, object) ==
    [resp EXCEPT !.data = ErrorBody(DetailsList(records), object)]

\* The outcome of one call: what is returned (kind "response" or "none") or
\* that the call raised (kind "raise"), the side-effect calls made, and the
\* list objects handle left behind.
custom_exception_handler(e, context) ==
    LET resp == exception_handler(e, context)
        data == context.request.data
        h == handle(e)
        called == [arg |-> e, ret |-> [raised |-> h.raised, records |-> h.records],
                   errors |-> h.errors, fields |-> h.fields]
        notcalled == [arg |-> arg, ret |-> ret, errors |-> errors, fields |-> fields]
    IN IF resp # None
       THEN IF h.raised
            THEN [ret |-> [None EXCEPT !.kind = "raise"],
                  logs |-> 0, reports |-> 0, rollbacks |-> 0, handle |-> called]
            ELSE [ret |-> Reshape(resp, h.records, data),
                  logs |-> 1, reports |-> 0, rollbacks |-> 0, handle |-> called]
       ELSE IF IsDevEnv(ENV_FLAG)
            THEN [ret |-> None, logs |-> 0, reports |-> 0, rollbacks |-> 0,
                  handle |-> notcalled]
            ELSE [ret |-> ServerErrorResponse(e, data),
                  logs |-> 0, reports |-> 1, rollbacks |-> 1, handle |-> notcalled]

-----------------------------------------------------------------------------
\* The state machine: a view raises exc while serving a request; DRF calls the
\* adapter once; ExceptionHandler.handle is a public classmethod that may also
\* be called directly, on exc or on any other exception.

NoOut == [raised |-> FALSE, records |-> <<>>]
NoExc == Exc("Exception", "", NoDetail)

Init ==
    /\ exc \in Exceptions
    /\ request_data \in RequestBodies
    /\ ENV_FLAG \in EnvFlags
    /\ pc = "raised"
    /\ response = None
    /\ logs = 0 /\ reports = 0 /\ rollbacks = 0
    /\ calls = 0
    /\ out = NoOut /\ ret = NoOut /\ arg = NoExc
    /\ errors = <<>> /\ fields = <<>>

Context == [request |-> [data |-> request_data]]

Adapter ==
    /\ pc = "raised"
    /\ LET r == custom_exception_handler(exc, Context)
       IN /\ response' = r.ret
          /\ pc' = CASE r.ret.kind = "response" -> "returned"
                     [] r.ret.kind = "none" -> "propagated"
                     [] OTHER -> "crashed"
          /\ logs' = logs + r.logs
          /\ reports' = reports + r.reports
          /\ rollbacks' = rollbacks + r.rollbacks
          /\ arg' = r.handle.arg
          /\ ret' = r.handle.ret
          /\ errors' = r.handle.errors
          /\ fields' = r.handle.fields
    /\ UNCHANGED <<exc, request_data, ENV_FLAG, calls, out>>

HandleCall ==
    /\ calls < MaxCalls
    /\ LET h == handle(exc)
           r == [raised |-> h.raised, records |-> h.records]
       IN /\ out' = IF calls = 0 THEN r ELSE out
          /\ arg' = exc
          /\ ret' = r
          /\ errors' = h.errors
          /\ fields' = h.fields
    /\ calls' = calls + 1
    /\ UNCHANGED <<exc, request_data, ENV_FLAG, pc, response, logs, reports, rollbacks>>

\* Exceptions of other requests that handle is called on in between two
\* calls on exc.
OtherExceptions ==
    { Exc("ValidationError", "", Dict(<<[field |-> "zip", error |-> Dict(<<[field |-> "name", error |-> ErrorList(1)]>>)]>>)) }

HandleOther ==
    /\ calls >= 1 /\ calls < MaxCalls
    /\ \E e \in OtherExceptions :
          LET h == handle(e)
          IN /\ arg' = e
             /\ ret' = [raised |-> h.raised, records |-> h.records]
             /\ errors' = h.errors
             /\ fields' = h.fields
    /\ UNCHANGED <<exc, request_data, ENV_FLAG, pc, response, logs, reports,
                   rollbacks, calls, out>>

Next == Adapter \/ HandleCall \/ HandleOther

Spec == Init /\ [][Next]_vars

TypeOK ==
    /\ exc \in Exceptions
    /\ pc \in {"raised", "returned", "propagated", "crashed"}
    /\ calls \in 0..MaxCalls
    /\ logs \in 0..1 /\ reports \in 0..1 /\ rollbacks \in 0..1

-----------------------------------------------------------------------------
\* What the properties below are stated against, computed from the detail
\* alone and not from unpack_errors.

\* The leaf errors of a dict's field lists in iteration order, each with its
\* field and the chain of its ancestor fields, outermost first.
RECURSIVE LeavesOf(_, _, _)
LeavesOf(items, i, ancestors) ==
    IF i > Len(items) THEN <<>>
    ELSE LET f == items[i].field
             v == items[i].error
             here == CASE v.kind = "dict" -> LeavesOf(v.items, 1, Append(ancestors, f))
                       [] v.kind = "list" ->
                            LET ls == SelectSeq(v.items, LAMBDA x : x.kind = "leaf")
                            IN [j \in 1..Len(ls) |->
                                    [ancestors |-> ancestors, field |-> f, each |-> ls[j]]]
                       [] OTHER -> <<>>
         IN here \o LeavesOf(items, i + 1, ancestors)

Leaves(detail) == IF detail.kind = "dict" THEN LeavesOf(detail.items, 1, <<>>) ELSE <<>>

\* The code of a leaf error whose path is the given chain of field names.
PathCode(path, each) == "validation." \o join("::", path) \o "." \o each.code

\* The tails of a sequence, the empty one and the whole one included.
Suffixes(seq) == {SubSeq(seq, k, Len(seq)) : k \in 1..(Len(seq) + 1)}

\* A detail made of fields, nested dicts, and lists of leaf errors only.
RECURSIVE WellFormed(_)
WellFormed(d) ==
    /\ d.kind = "dict"
    /\ \A i \in 1..Len(d.items) :
          LET v == d.items[i].error
          IN \/ v.kind = "list" /\ \A j \in 1..Len(v.items) : v.items[j].kind = "leaf"
             \/ v.kind = "dict" /\ WellFormed(v)

\* A detail that maps top-level field names directly to lists of leaf errors.
Flat(d) ==
    /\ d.kind = "dict"
    /\ \A i \in 1..Len(d.items) :
          /\ d.items[i].error.kind = "list"
          /\ \A j \in 1..Len(d.items[i].error.items) : d.items[i].error.items[j].kind = "leaf"

\* The kind mapping as the specification's data model gives it.
KindTypes ==
    << <<"AuthenticationFailed", "authentication_error">>,
       <<"NotAuthenticated", "authentication_error">>,
       <<"PermissionDenied", "authentication_error">>,
       <<"CustomException", "api_error">>,
       <<"ValidationError", "validation_error">>,
       <<"Http404", "invalid_request_error">> >>

Mapped(e) == \E i \in 1..Len(KindTypes) : isinstance(e, KindTypes[i][1])

FirstMappedType(e) ==
    LET i == CHOOSE k \in 1..Len(KindTypes) :
                /\ isinstance(e, KindTypes[k][1])
                /\ \A m \in 1..(k - 1) : ~isinstance(e, KindTypes[m][1])
    IN KindTypes[i][2]

\* The framework's default handler produced a response for exc.
Recognized == exception_handler(exc, Context) # None

\* The adapter has run.
Handled == pc # "raised"

\* The latest handle call unpacked a validation error.
Unpacked == isinstance(arg, "ValidationError") /\ ~isinstance(arg, "Http404")

-----------------------------------------------------------------------------
\* C1: whenever the framework's handler produced a response, the adapter
\* returns that response, status unchanged, with its body replaced by
\* {"errors": [{"details": handle(exc), "object": request_data}]}.
C1_ResponseReshaped ==
    (Handled /\ Recognized) =>
        /\ pc = "returned"
        /\ response.kind = "response"
        /\ response.status = exception_handler(exc, Context).status
        /\ ~handle(exc).raised
        /\ response.data =
              [errors |-> <<[details |-> [kind |-> "list", records |-> handle(exc).records, text |-> ""],
                             object |-> request_data]>>]

\* C2: every exception the framework recognizes is converted into a
\* structured error response; the adapter never raises on this path.
C2_NeverRaises ==
    (Handled /\ Recognized) => (pc # "crashed" /\ response.kind = "response")

\* C3: every record the unpacker emits for a leaf error carries the full
\* chain of the leaf's ancestor fields, joined by "::", before the field.
C3_FullChain ==
    (Unpacked /\ WellFormed(arg.detail)) =>
        /\ Len(errors) = Len(Leaves(arg.detail))
        /\ \A i \in 1..Len(errors) :
              LET l == Leaves(arg.detail)[i]
              IN errors[i].code = PathCode(Append(l.ancestors, l.field), l.each)

C5_ServerError ==
    (Handled /\ ~Recognized /\ ENV_FLAG \notin {"local", "test"}) =>
        /\ pc = "returned"
        /\ reports = 1
        /\ rollbacks = 1
        /\ response.kind = "response"
        /\ response.status = 500
        /\ Len(response.data.errors) = 1
        /\ response.data.errors[1].details.kind = "str"
        /\ response.data.errors[1].details.text = "Server error, please contact the administrator."
        /\ response.data.errors[1].object = request_data

C5_Witness ==
    /\ Handled /\ ~Recognized /\ ENV_FLAG = "production"
    /\ exc.msg # ""
    /\ response.status = 500 /\ reports = 1

\* C6: for every Http404, whatever its message, handle returns exactly one
\* record: invalid_request_error, general.parameter_unknown, the fixed
\* not-found message.
C6_NotFound ==
    isinstance(arg, "Http404") =>
        /\ ~ret.raised
        /\ ret.records = <<[type |-> "invalid_request_error",
                            code |-> "general.parameter_unknown",
                            message |-> "The requested resource does not exist."]>>

C6_Witness ==
    /\ isinstance(arg, "Http404") /\ arg.msg # ""
    /\ Len(ret.records) = 1

\* C7: for a flat validation error handle returns one record per leaf error,
\* in field order and then list order: validation_error,
\* validation.<field>.<code>, the leaf error's text.
RECURSIVE FlatRecords(_, _)
FlatRecords(items, i) ==
    IF i > Len(items) THEN <<>>
    ELSE [j \in 1..Len(items[i].error.items) |->
            [type |-> "validation_error",
             code |-> "validation." \o items[i].field \o "." \o items[i].error.items[j].code,
             message |-> items[i].error.items[j].msg]]
         \o FlatRecords(items, i + 1)

C7_FlatFields ==
    (Unpacked /\ Flat(arg.detail)) =>
        /\ ~ret.raised
        /\ ret.records = FlatRecords(arg.detail.items, 1)

C7_Witness ==
    /\ Unpacked /\ Flat(arg.detail)
    /\ Len(arg.detail.items) >= 2
    /\ \E i \in 1..Len(arg.detail.items) : Len(arg.detail.items[i].error.items) >= 2
    /\ Len(ret.records) >= 3

\* C8: the warning log is made once exactly when the framework produced a
\* response; the report and the rollback marking are made exactly when it
\* produced none and the flag is neither local nor test; with no response and
\* a local or test flag the adapter returns None and does nothing else.
C8_EffectsByPath ==
    Handled =>
        /\ (logs = 1) <=> Recognized
        /\ logs \in {0, 1}
        /\ (reports = 1 /\ rollbacks = 1) <=> (~Recognized /\ ENV_FLAG \notin {"local", "test"})
        /\ (reports = 0 /\ rollbacks = 0) <=> ~(~Recognized /\ ENV_FLAG \notin {"local", "test"})
        /\ (~Recognized /\ ENV_FLAG \in {"local", "test"}) =>
              (pc = "propagated" /\ response = None /\ logs = 0)

\* C9: every call of handle on the same exception returns what the first
\* call on it returned.
C9_Idempotent ==
    (calls >= 1 /\ arg = exc) => ret = out

C9_Witness ==
    /\ calls = 2 /\ arg = exc /\ Unpacked
    /\ Len(fields) >= 1
    /\ Len(ret.records) >= 1

\* C10: the path in the code of every record emitted for a leaf error under
\* field f is f preceded by a tail of f's ancestor chain; no other field's
\* name gets into it.
C10_OnlyAncestors ==
    Unpacked =>
        /\ Len(errors) <= Len(Leaves(arg.detail))
        /\ \A i \in 1..Len(errors) :
              LET l == Leaves(arg.detail)[i]
              IN \E t \in Suffixes(l.ancestors) :
                    errors[i].code = PathCode(Append(t, l.field), l.each)

\* A record of a field that follows a nested group inside a nested group: its
\* path is cut short, and an earlier record has a path of two names or more.
C10_Witness ==
    /\ Unpacked
    /\ \E i \in 1..Len(errors) :
          LET l == Leaves(arg.detail)[i]
          IN /\ Len(l.ancestors) >= 1
             /\ errors[i].code = PathCode(<<l.field>>, l.each)
    /\ \E i \in 1..Len(errors) :
          LET l == Leaves(arg.detail)[i]
          IN /\ Len(l.ancestors) >= 1
             /\ errors[i].code = PathCode(Append(l.ancestors, l.field), l.each)

====
